---------------------------- MODULE Spec2Model ----------------------------
(***************************************************************************)
(* Flight Delay Tool (streamlit_delay_app.py): the airline name resolver,  *)
(* the three aggregation operations over the delay records, and the        *)
(* Streamlit script with its session state.                                *)
(*                                                                         *)
(* Strings are sequences of code points (ASCII), so that str.lower(),      *)
(* str.upper(), string comparison and difflib's character matching are     *)
(* computed, not assumed.  Python's None / a returned value is an option   *)
(* record: None, Some(v).                                                  *)
(***************************************************************************)
EXTENDS Integers, Sequences, FiniteSets, TLC

VARIABLES
    df,             \* the loaded dataset: a sequence of delay records (line 150)
    session_state,  \* st.session_state: a function from the keys present to values
    airport_input,  \* script global, line 163: the airport text box, upper-cased
    airline_input,  \* script global, line 168: the airline text box
    submit,         \* script global, line 172: the Search button of the last run
    page,           \* what the last script run rendered
    event,          \* the UI event that triggered the last script run
    call            \* a direct call of one of the functions: arguments and result

vars == <<df, session_state, airport_input, airline_input, submit, page, event, call>>

-----------------------------------------------------------------------------
(* Bounds of the explored inputs *)

MaxCasePos == 2      \* override-key inputs vary the case of the first MaxCasePos letters
MaxCandidates == 2   \* length of the candidate list given to fuzzy_match_airline
MaxRows == 2         \* rows of a dataset given to the aggregation operations

-----------------------------------------------------------------------------
(* Python values *)

None == [some |-> FALSE, val |-> <<>>]
Some(v) == [some |-> TRUE, val |-> v]

\* str.lower() / str.upper() on ASCII text
Lower(s) == [i \in DOMAIN s |-> IF s[i] \in 65..90 THEN s[i] + 32 ELSE s[i]]
Upper(s) == [i \in DOMAIN s |-> IF s[i] \in 97..122 THEN s[i] - 32 ELSE s[i]]

\* s < t on Python strings: lexicographic by code point, a proper prefix is smaller
RECURSIVE StrLess(_, _)
StrLess(s, t) ==
    IF t = <<>> THEN FALSE
    ELSE IF s = <<>> THEN TRUE
    ELSE IF s[1] # t[1] THEN s[1] < t[1]
    ELSE StrLess(Tail(s), Tail(t))

k_southwest == <<115, 111, 117, 116, 104, 119, 101, 115, 116>>   \* "southwest"
k_delta == <<100, 101, 108, 116, 97>>   \* "delta"
k_american == <<97, 109, 101, 114, 105, 99, 97, 110>>   \* "american"
k_united == <<117, 110, 105, 116, 101, 100>>   \* "united"
k_alaska == <<97, 108, 97, 115, 107, 97>>   \* "alaska"
k_spirit == <<115, 112, 105, 114, 105, 116>>   \* "spirit"
n_Southwest == <<83, 111, 117, 116, 104, 119, 101, 115, 116, 32, 65, 105, 114, 108, 105, 110, 101, 115>>   \* "Southwest Airlines"
n_Delta == <<68, 101, 108, 116, 97, 32, 65, 105, 114, 32, 76, 105, 110, 101, 115, 32, 73, 110, 99, 46>>   \* "Delta Air Lines Inc."
n_American == <<65, 109, 101, 114, 105, 99, 97, 110, 32, 65, 105, 114, 108, 105, 110, 101, 115, 32, 73, 110, 99, 46>>   \* "American Airlines Inc."
n_United == <<85, 110, 105, 116, 101, 100, 32, 65, 105, 114, 32, 76, 105, 110, 101, 115, 32, 73, 110, 99, 46>>   \* "United Air Lines Inc."
n_Alaska == <<65, 108, 97, 115, 107, 97, 32, 65, 105, 114, 108, 105, 110, 101, 115, 32, 73, 110, 99, 46>>   \* "Alaska Airlines Inc."
n_Spirit == <<83, 112, 105, 114, 105, 116, 32, 65, 105, 114, 108, 105, 110, 101, 115>>   \* "Spirit Airlines"

-----------------------------------------------------------------------------
(* difflib.get_close_matches, as called on line 28 (CPython's difflib.py and  *)
(* heapq.py): SequenceMatcher with no junk (autojunk needs 200 elements),     *)
(* seq1 = the candidate, seq2 = the word.  Indices are 0-based, half-open.    *)
(* A score is the pair <<2*matches, length>>, compared as a fraction: the     *)
(* float quotient orders the same way for sequences this short.               *)

RECURSIVE MatchLen(_, _, _, _, _, _)
\* the length of the common run of a[i:ahi] and b[j:bhi] from their starts
MatchLen(a, b, i, j, ahi, bhi) ==
    IF i < ahi /\ j < bhi /\ a[i + 1] = b[j + 1]
    THEN 1 + MatchLen(a, b, i + 1, j + 1, ahi, bhi)
    ELSE 0

SetMax(S) == CHOOSE x \in S : \A y \in S : y <= x
SetMin(S) == CHOOSE x \in S : \A y \in S : x <= y

\* SequenceMatcher.find_longest_match: the longest block, starting earliest in
\* a, then earliest in b; <<alo, blo, 0>> when nothing matches
find_longest_match(a, b, alo, ahi, blo, bhi) ==
    LET starts == (alo .. ahi - 1) \X (blo .. bhi - 1)
        len(p) == MatchLen(a, b, p[1], p[2], ahi, bhi)
        k == IF starts = {} THEN 0 ELSE SetMax({len(p) : p \in starts})
    IN  IF k = 0 THEN <<alo, blo, 0>>
        ELSE LET best == {p \in starts : len(p) = k}
                 i == SetMin({p[1] : p \in best})
                 j == SetMin({p[2] : p \in {q \in best : q[1] = i}})
             IN  <<i, j, k>>

RECURSIVE matching_size(_, _, _, _, _, _)
\* the sum of the sizes of get_matching_blocks over a[alo:ahi], b[blo:bhi]
matching_size(a, b, alo, ahi, blo, bhi) ==
    LET x == find_longest_match(a, b, alo, ahi, blo, bhi)
        i == x[1]
        j == x[2]
        k == x[3]
    IN  IF k = 0 THEN 0
        ELSE k
             + (IF alo < i /\ blo < j
                THEN matching_size(a, b, alo, i, blo, j) ELSE 0)
             + (IF i + k < ahi /\ j + k < bhi
                THEN matching_size(a, b, i + k, ahi, j + k, bhi) ELSE 0)

\* _calculate_ratio: 2.0 * matches / length, 1.0 for two empty sequences
calculate_ratio(matches, length) ==
    IF length # 0 THEN <<2 * matches, length>> ELSE <<1, 1>>

ratio(a, b) ==
    calculate_ratio(matching_size(a, b, 0, Len(a), 0, Len(b)), Len(a) + Len(b))

Count(s, c) == Cardinality({i \in DOMAIN s : s[i] = c})

\* quick_ratio: the size of the multiset intersection
quick_ratio(a, b) ==
    LET elts == {a[i] : i \in DOMAIN a}
        RECURSIVE Sum(_)
        Sum(S) == IF S = {} THEN 0
                  ELSE LET c == CHOOSE c \in S : TRUE
                           na == Count(a, c)
                           nb == Count(b, c)
                       IN  (IF na < nb THEN na ELSE nb) + Sum(S \ {c})
    IN  calculate_ratio(Sum(elts), Len(a) + Len(b))

real_quick_ratio(a, b) ==
    calculate_ratio(IF Len(a) < Len(b) THEN Len(a) ELSE Len(b), Len(a) + Len(b))

ScoreGE(s, t) == s[1] * t[2] >= t[1] * s[2]
ScoreGT(s, t) == s[1] * t[2] > t[1] * s[2]
ScoreEQ(s, t) == s[1] * t[2] = t[1] * s[2]

\* the cutoff a match must reach: line 28, cutoff=0.4 = 2/5
Cutoff_default == <<3, 5>>
Cutoff == <<2, 5>>

\* (score, x) > (score', x') on Python tuples
tuple_gt_score_only(p, q) == ScoreGT(p[1], q[1])
tuple_gt(p, q) ==
    \/ ScoreGT(p[1], q[1])
    \/ ScoreEQ(p[1], q[1]) /\ StrLess(q[2], p[2])

RECURSIVE py_max(_, _)
\* max() over a non-empty list: the first of the greatest elements
py_max(best, rest) ==
    IF rest = <<>> THEN best
    ELSE py_max(IF tuple_gt(Head(rest), best) THEN Head(rest) ELSE best, Tail(rest))

RECURSIVE scored(_, _, _)
\* the loop of get_close_matches: (score, x) of the possibilities that pass
scored(word, possibilities, cutoff) ==
    IF possibilities = <<>> THEN <<>>
    ELSE LET x == Head(possibilities)
             rest == scored(word, Tail(possibilities), cutoff)
         IN  IF /\ ScoreGE(real_quick_ratio(x, word), cutoff)
                /\ ScoreGE(quick_ratio(x, word), cutoff)
                /\ ScoreGE(ratio(x, word), cutoff)
             THEN <<<<ratio(x, word), x>>>> \o rest
             ELSE rest

\* get_close_matches(word, possibilities, n=1, cutoff): heapq.nlargest(1, result)
\* is max(result), or nothing for an empty result
get_close_matches(word, possibilities, cutoff) ==
    LET result == scored(word, possibilities, cutoff)
    IN  IF result = <<>> THEN <<>>
        ELSE <<py_max(Head(result), Tail(result))[2]>>

-----------------------------------------------------------------------------
(* fuzzy_match_airline, lines 15-32 *)

alternate_lookup ==
    (k_southwest :> n_Southwest) @@ (k_delta :> n_Delta) @@
    (k_american :> n_American) @@ (k_united :> n_United) @@
    (k_alaska :> n_Alaska) @@ (k_spirit :> n_Spirit)

fuzzy_match_airline_no_lower(user_input, airline_list) ==
    IF user_input \in DOMAIN alternate_lookup
    THEN Some(alternate_lookup[user_input])
    ELSE LET matches == get_close_matches(user_input, airline_list, Cutoff)
         IN  IF matches # <<>> THEN Some(matches[1]) ELSE None

fuzzy_match_airline(user_input, airline_list) ==
    IF Lower(user_input) \in DOMAIN alternate_lookup
    THEN Some(alternate_lookup[Lower(user_input)])
    ELSE LET matches == get_close_matches(user_input, airline_list, Cutoff)
         IN  IF matches # <<>> THEN Some(matches[1]) ELSE None

-----------------------------------------------------------------------------
(* Numbers.  The count and minute columns hold whole numbers; a column sum is  *)
(* a natural number.  A float result is a fraction n/d, or NaN / +inf, which   *)
(* is what numpy's division yields for 0/0 and x/0 (a warning, no exception).  *)

Num(n, d) == [kind |-> "num", n |-> n, d |-> d]
NaN == [kind |-> "nan", n |-> 0, d |-> 1]
Inf == [kind |-> "inf", n |-> 0, d |-> 1]

\* x / y on two non-negative column sums
FloatDiv(x, y) ==
    IF y # 0 THEN Num(x, y)
    ELSE IF x = 0 THEN NaN ELSE Inf

\* f * 100
Times100(f) == IF f.kind = "num" THEN Num(100 * f.n, f.d) ELSE f

\* int(x) of a non-negative column sum: truncation
int(x) == x \div 1

\* round(f, 2): the nearest hundredth, a tie to the even one; NaN and inf stay
round2(f) ==
    IF f.kind # "num" THEN f
    ELSE LET q == (100 * f.n) \div f.d
             r == (100 * f.n) % f.d
         IN  Num(IF 2 * r < f.d THEN q
                 ELSE IF 2 * r > f.d THEN q + 1
                 ELSE IF q % 2 = 0 THEN q ELSE q + 1,
                 100)

RECURSIVE ColSum(_, _)
\* Series.sum() of one column of a frame
ColSum(rows, col) ==
    IF rows = <<>> THEN 0 ELSE Head(rows)[col] + ColSum(Tail(rows), col)

-----------------------------------------------------------------------------
(* get_flight_stats, lines 35-52 *)

get_flight_stats_zero_as_percent(frame, airport_code, airline_name) ==
    LET filtered == SelectSeq(frame, LAMBDA r :
                        r.airport = airport_code /\ r.carrier_name = airline_name)
    IN  IF filtered = <<>> THEN None
        ELSE LET total_arrivals == ColSum(filtered, "arr_flights")
                 total_delays == ColSum(filtered, "arr_del15")
             IN  Some([total_arrivals |-> int(total_arrivals),
                       total_delays |-> int(total_delays),
                       delay_percent |->
                           IF total_arrivals = 0 THEN Num(0, 100)
                           ELSE round2(Times100(FloatDiv(total_delays, total_arrivals)))])

get_flight_stats_airport_only(frame, airport_code, airline_name) ==
    LET filtered == SelectSeq(frame, LAMBDA r : r.airport = airport_code)
    IN  IF filtered = <<>> THEN None
        ELSE LET total_arrivals == ColSum(filtered, "arr_flights")
                 total_delays == ColSum(filtered, "arr_del15")
                 delay_percent == Times100(FloatDiv(total_delays, total_arrivals))
             IN  Some([total_arrivals |-> int(total_arrivals),
                       total_delays |-> int(total_delays),
                       delay_percent |-> round2(delay_percent)])

get_flight_stats_no_empty_check(frame, airport_code, airline_name) ==
    LET filtered == SelectSeq(frame, LAMBDA r :
                        r.airport = airport_code /\ r.carrier_name = airline_name)
        total_arrivals == ColSum(filtered, "arr_flights")
        total_delays == ColSum(filtered, "arr_del15")
        delay_percent == Times100(FloatDiv(total_delays, total_arrivals))
    IN  Some([total_arrivals |-> int(total_arrivals),
              total_delays |-> int(total_delays),
              delay_percent |-> round2(delay_percent)])

get_flight_stats(frame, airport_code, airline_name) ==
    LET filtered == SelectSeq(frame, LAMBDA r :
                        r.airport = airport_code /\ r.carrier_name = airline_name)
    IN  IF filtered = <<>> THEN None
        ELSE LET total_arrivals == ColSum(filtered, "arr_flights")
                 total_delays == ColSum(filtered, "arr_del15")
                 delay_percent == Times100(FloatDiv(total_delays, total_arrivals))
             IN  Some([total_arrivals |-> int(total_arrivals),
                       total_delays |-> int(total_delays),
                       delay_percent |-> round2(delay_percent)])

-----------------------------------------------------------------------------
(* plot_monthly_delays, lines 55-104.  What is returned here is what the      *)
(* function draws: the info message, or the rows of the frame it charts.      *)

AverageByMonth == "Average by Month (all years combined)"
Timeline == "Timeline (month by month over years)"
ViewTypes == {AverageByMonth, Timeline}

Info(message) == [shown |-> "info", message |-> message, data |-> <<>>]
Chart(data) == [shown |-> "chart", message |-> "", data |-> data]

\* the order groupby sorts its keys in: numbers, or (year, month) tuples
KeyLess(k, l) ==
    IF k[1] # l[1] THEN k[1] < l[1]
    ELSE Len(k) > 1 /\ k[2] < l[2]

RECURSIVE SortKeys(_)
SortKeys(K) ==
    IF K = {} THEN <<>>
    ELSE LET m == CHOOSE k \in K : \A l \in K \ {k} : KeyLess(k, l)
         IN  <<m>> \o SortKeys(K \ {m})

\* frame.groupby(by).sum().reset_index() followed by the delay_percent column:
\* one row per key in sorted order, every other column summed
groupby_sum(rows, by) ==
    LET key(r) == [i \in 1..Len(by) |-> r[by[i]]]
        keys == SortKeys({key(rows[i]) : i \in DOMAIN rows})
        group(k) == SelectSeq(rows, LAMBDA r : key(r) = k)
    IN  [i \in DOMAIN keys |->
            LET g == group(keys[i])
            IN  [year |-> IF Len(by) > 1 THEN keys[i][1] ELSE ColSum(g, "year"),
                 month |-> IF Len(by) > 1 THEN keys[i][2] ELSE keys[i][1],
                 arr_flights |-> ColSum(g, "arr_flights"),
                 arr_del15 |-> ColSum(g, "arr_del15"),
                 delay_percent |-> Times100(FloatDiv(ColSum(g, "arr_del15"),
                                                     ColSum(g, "arr_flights")))]]

plot_monthly_delays_always_by_month(frame, airport_code, airline_name, view_type) ==
    LET monthly == SelectSeq(frame, LAMBDA r :
                       r.airport = airport_code /\ r.carrier_name = airline_name)
    IN  IF monthly = <<>>
        THEN Info("No monthly data available for this combination.")
        ELSE Chart(groupby_sum(monthly, <<"month">>))

plot_monthly_delays(frame, airport_code, airline_name, view_type) ==
    LET monthly == SelectSeq(frame, LAMBDA r :
                       r.airport = airport_code /\ r.carrier_name = airline_name)
    IN  IF monthly = <<>>
        THEN Info("No monthly data available for this combination.")
        ELSE IF view_type = AverageByMonth
        THEN Chart(groupby_sum(monthly, <<"month">>))
        ELSE Chart(groupby_sum(monthly, <<"year", "month">>))

-----------------------------------------------------------------------------
(* plot_delay_cause_pie, lines 106-143 *)

CauseColumns ==
    << <<"Carrier Delay", "carrier_delay">>,
       <<"Weather Delay", "weather_delay">>,
       <<"NAS Delay", "nas_delay">>,
       <<"Security Delay", "security_delay">>,
       <<"Late Aircraft", "late_aircraft_delay">> >>

plot_delay_cause_pie_keep_zero(frame, airport_code, airline_name) ==
    LET filtered == SelectSeq(frame, LAMBDA r :
                        r.airport = airport_code /\ r.carrier_name = airline_name)
    IN  IF filtered = <<>>
        THEN Info("No data available for delay causes.")
        ELSE Chart([i \in DOMAIN CauseColumns |->
                       [Cause |-> CauseColumns[i][1],
                        Minutes |-> ColSum(filtered, CauseColumns[i][2])]])

plot_delay_cause_pie(frame, airport_code, airline_name) ==
    LET filtered == SelectSeq(frame, LAMBDA r :
                        r.airport = airport_code /\ r.carrier_name = airline_name)
    IN  IF filtered = <<>>
        THEN Info("No data available for delay causes.")
        ELSE LET delay_df == [i \in DOMAIN CauseColumns |->
                                 [Cause |-> CauseColumns[i][1],
                                  Minutes |-> ColSum(filtered, CauseColumns[i][2])]]
             IN  Chart(SelectSeq(delay_df, LAMBDA row : row.Minutes > 0))

-----------------------------------------------------------------------------
(* The Streamlit script, lines 150-215: one run of it from top to bottom *)

LAX == <<76, 65, 88>>   \* "LAX"
SFO == <<83, 70, 79>>   \* "SFO"

NoKeys == <<>>    \* a session state with no keys
Has(state, key) == key \in DOMAIN state
Put(state, key, value) ==
    [k \in DOMAIN state \cup {key} |-> IF k = key THEN value ELSE state[k]]

\* truth value of a returned string or dict: None and "" are false
Truthy(opt) == opt.some /\ opt.val # <<>>

RECURSIVE unique(_)
\* Series.unique(): the distinct values in order of first appearance (line 160)
unique(values) ==
    IF values = <<>> THEN <<>>
    ELSE LET rest == unique(SelectSeq(Tail(values), LAMBDA v : v # Head(values)))
         IN  <<Head(values)>> \o rest

all_airlines(frame) == unique([i \in DOMAIN frame |-> frame[i].carrier_name])

NothingShown == [shown |-> "nothing", message |-> "", data |-> <<>>]

BlankPage ==
    [status |-> "inputs", matched_airline |-> None, stats |-> None,
     view_type |-> "", monthly |-> NothingShown, pie |-> NothingShown]

save_search_unchecked(state, airport, airline, pressed) ==
    IF pressed
    THEN Put(Put(state, "airport_input", airport), "airline_input", airline)
    ELSE state

\* lines 175-177: Search with both boxes filled stores the query
save_search(state, airport, airline, pressed) ==
    IF pressed /\ airport # <<>> /\ airline # <<>>
    THEN Put(Put(state, "airport_input", airport), "airline_input", airline)
    ELSE state

\* line 180: both inputs are stored
has_query(state) == Has(state, "airport_input") /\ Has(state, "airline_input")

\* line 181: the stored airline name resolved against the dataset's carriers
resolve_stored(frame, state) ==
    IF has_query(state)
    THEN fuzzy_match_airline(state["airline_input"], all_airlines(frame))
    ELSE None

\* line 188: the statistics of the stored airport and the matched airline
stats_of(frame, state, matched_airline) ==
    IF has_query(state) /\ Truthy(matched_airline)
    THEN get_flight_stats(frame, state["airport_input"], matched_airline.val)
    ELSE None

render_always_default(frame, state, matched_airline, stats) ==
    IF ~has_query(state)
    THEN [state |-> state, page |-> BlankPage]
    ELSE IF ~Truthy(matched_airline)
    THEN [state |-> state, page |-> [BlankPage EXCEPT !.status = "error"]]
    ELSE IF ~stats.some
    THEN [state |-> state,
          page |-> [BlankPage EXCEPT !.status = "warning",
                                     !.matched_airline = matched_airline]]
    ELSE LET state2 == Put(state, "view_type", AverageByMonth)
             view_type == state2["view_type"]
         IN  [state |-> state2,
              page |->
                [status |-> "results",
                 matched_airline |-> matched_airline,
                 stats |-> stats,
                 view_type |-> view_type,
                 monthly |-> plot_monthly_delays(frame, state["airport_input"],
                                                 matched_airline.val, view_type),
                 pie |-> plot_delay_cause_pie(frame, state["airport_input"],
                                              matched_airline.val)]]

\* lines 180-211 given the results of lines 181 and 188: what is drawn, and
\* the session state (the view type gets its default on line 200)
render(frame, state, matched_airline, stats) ==
    IF ~has_query(state)
    THEN [state |-> state, page |-> BlankPage]
    ELSE IF ~Truthy(matched_airline)
    THEN [state |-> state, page |-> [BlankPage EXCEPT !.status = "error"]]
    ELSE IF ~stats.some
    THEN [state |-> state,
          page |-> [BlankPage EXCEPT !.status = "warning",
                                     !.matched_airline = matched_airline]]
    ELSE LET state2 == IF Has(state, "view_type") THEN state
                       ELSE Put(state, "view_type", AverageByMonth)
             view_type == state2["view_type"]
         IN  [state |-> state2,
              page |->
                [status |-> "results",
                 matched_airline |-> matched_airline,
                 stats |-> stats,
                 view_type |-> view_type,
                 monthly |-> plot_monthly_delays(frame, state["airport_input"],
                                                 matched_airline.val, view_type),
                 pie |-> plot_delay_cause_pie(frame, state["airport_input"],
                                              matched_airline.val)]]

\* the session state a run leaves behind.  view_type is the key of the radio
\* widget: when a run does not draw the radio, Streamlit may drop the key
\* (its widget-state clean-up), so both outcomes are possible.
AfterRun(out, keep) ==
    IF out.page.status # "results" /\ Has(out.state, "view_type") /\ ~keep
    THEN [k \in DOMAIN out.state \ {"view_type"} |-> out.state[k]]
    ELSE out.state

\* one run of the script with the given widget values
Run(state, airport, airline, pressed, kind) ==
    \E keep \in BOOLEAN :
    \E saved \in {save_search(state, airport, airline, pressed)} :
    \E matched_airline \in {resolve_stored(df, saved)} :
    \E stats \in {stats_of(df, saved, matched_airline)} :
    \E out \in {render(df, saved, matched_airline, stats)} :
        /\ session_state' = AfterRun(out, keep)
        /\ page' = out.page
        /\ airport_input' = airport
        /\ airline_input' = airline
        /\ submit' = pressed
        /\ event' = kind
        /\ UNCHANGED <<df, call>>

-----------------------------------------------------------------------------
(* The explored inputs *)

lax == <<108, 97, 120>>   \* "lax"
n_SpiritAirLines == <<83, 112, 105, 114, 105, 116, 32, 65, 105, 114, 32, 76, 105, 110, 101, 115>>   \* "Spirit Air Lines"
t_ax == <<97, 120>>   \* "ax"
t_ay == <<97, 121>>   \* "ay"
t_axx == <<97, 120, 120>>   \* "axx"
t_a == <<97>>   \* "a"
t_ab == <<97, 98>>   \* "ab"
t_q == <<113>>   \* "q"
t_xyz == <<120, 121, 122>>   \* "xyz"
t_deltas == <<100, 101, 108, 116, 97, 115>>   \* "deltas"
t_DeltaAir == <<68, 101, 108, 116, 97, 32, 65, 105, 114>>   \* "Delta Air"
t_SpiritAir == <<83, 112, 105, 114, 105, 116, 32, 65, 105, 114>>   \* "Spirit Air"

\* the spellings of an override key with any of its first MaxCasePos letters,
\* or all of its letters, in upper case
CaseVariants(k) ==
    LET first == {i \in DOMAIN k : i <= MaxCasePos}
    IN  {[i \in DOMAIN k |-> IF i \in U THEN k[i] - 32 ELSE k[i]] : U \in SUBSET first}
        \cup {Upper(k)}

OverrideInputs == UNION {CaseVariants(k) : k \in DOMAIN alternate_lookup}
FreeInputs == {<<>>, t_a, t_ab, t_q, t_xyz, t_deltas, t_DeltaAir, t_SpiritAir,
               Upper(t_DeltaAir)}
UserInputs == OverrideInputs \cup FreeInputs

CandidatePool == {n_Delta, n_SpiritAirLines, k_delta, t_ax, t_ay, t_axx}

\* candidate lists: distinct names (they come from unique()), in any order
CandidateLists ==
    UNION {{l \in [1..n -> CandidatePool] : \A i, j \in 1..n : i # j => l[i] # l[j]}
           : n \in 0..MaxCandidates}

Row(year, month, airport, carrier_name, counts, causes) ==
    [year |-> year, month |-> month, airport |-> airport,
     carrier_name |-> carrier_name,
     arr_flights |-> counts[1], arr_del15 |-> counts[2],
     carrier_delay |-> causes[1], weather_delay |-> causes[2],
     nas_delay |-> causes[3], security_delay |-> causes[4],
     late_aircraft_delay |-> causes[5]]

RowKeys == {<<LAX, n_Delta>>, <<lax, n_Delta>>, <<LAX, n_SpiritAirLines>>}
RowDates == {<<2020, 1>>, <<2021, 1>>, <<2020, 2>>}
NoCauses == <<0, 0, 0, 0, 0>>

\* rows that differ in their month and year, rows with no arrivals or an
\* inexact percentage, and rows with delay minutes
Rows ==
    {Row(d[1], d[2], k[1], k[2], c, NoCauses) :
        d \in RowDates, k \in RowKeys, c \in {<<100, 10>>, <<50, 5>>}}
    \cup {Row(2020, 1, k[1], k[2], c, NoCauses) :
        k \in RowKeys, c \in {<<0, 0>>, <<32, 1>>, <<0, 3>>}}
    \cup {Row(2020, 1, k[1], k[2], <<100, 10>>, m) :
        k \in RowKeys, m \in {<<120, 0, 0, 0, 0>>, <<0, 15, 30, 0, 45>>}}

Datasets == UNION {[1..n -> Rows] : n \in 0..MaxRows}
Queries == {<<LAX, n_Delta>>, <<lax, n_Delta>>}

\* the dataset behind the user interface
SampleData ==
    << Row(2020, 1, LAX, n_Delta, <<100, 10>>, <<120, 0, 0, 0, 0>>),
       Row(2021, 1, LAX, n_Delta, <<50, 5>>, <<0, 15, 30, 0, 45>>),
       Row(2020, 2, LAX, n_SpiritAirLines, <<32, 1>>, NoCauses),
       Row(2020, 2, SFO, n_Delta, <<0, 0>>, NoCauses) >>

AirportTexts == {<<>>, lax, LAX, SFO}
AirlineTexts == {<<>>, k_delta, t_DeltaAir, t_q, k_spirit}

NoCall ==
    [fn |-> "", user_input |-> <<>>, airline_list |-> <<>>, airport_code |-> <<>>,
     airline_name |-> <<>>, view_type |-> "", ret |-> None]

-----------------------------------------------------------------------------
(* The user interface: each action is an event and the script run it causes *)

Init ==
    /\ df = SampleData
    /\ session_state = NoKeys
    /\ airport_input = <<>>
    /\ airline_input = <<>>
    /\ submit = FALSE
    /\ page = BlankPage
    /\ event = "start"
    /\ call = NoCall

\* the user edits the airport box (line 163: the text is upper-cased)
TypeAirport ==
    \E text \in AirportTexts :
        Run(session_state, Upper(text), airline_input, FALSE, "type")

\* the user edits the airline box (line 168)
TypeAirline ==
    \E text \in AirlineTexts :
        Run(session_state, airport_input, text, FALSE, "type")

\* the user presses Search (line 172)
Search == Run(session_state, airport_input, airline_input, TRUE, "search")

\* the script is run again with nothing changed
Rerun == Run(session_state, airport_input, airline_input, FALSE, "rerun")

\* the user picks the other option of the radio, whose key is view_type
\* (lines 202-208): the widget writes the session state, then the script runs
SelectView ==
    /\ page.status = "results"
    /\ \E choice \in ViewTypes \ {session_state["view_type"]} :
           Run(Put(session_state, "view_type", choice),
               airport_input, airline_input, FALSE, "select")

\* the user presses New Search (lines 213-215): the run that draws the button
\* clears the session state and reruns the script, which starts on an empty
\* session; the text boxes fall back to their defaults or keep their text
NewSearch ==
    /\ page.status = "results"
    /\ \E reset \in BOOLEAN :
           Run(NoKeys,
               IF reset THEN <<>> ELSE airport_input,
               IF reset THEN <<>> ELSE airline_input,
               FALSE, "new_search")

Next == TypeAirport \/ TypeAirline \/ Search \/ Rerun \/ SelectView \/ NewSearch

Spec == Init /\ [][Next]_vars

-----------------------------------------------------------------------------
(* fuzzy_match_airline called on its own *)

InitResolve ==
    /\ df = <<>>
    /\ session_state = NoKeys
    /\ airport_input = <<>>
    /\ airline_input = <<>>
    /\ submit = FALSE
    /\ page = BlankPage
    /\ event = "start"
    /\ \E u \in UserInputs, l \in CandidateLists :
           call = [NoCall EXCEPT !.fn = "call", !.user_input = u, !.airline_list = l]

Call_fuzzy_match_airline ==
    /\ call.fn = "call"
    /\ call' = [call EXCEPT
                   !.fn = "fuzzy_match_airline",
                   !.ret = fuzzy_match_airline(call.user_input, call.airline_list)]
    /\ UNCHANGED <<df, session_state, airport_input, airline_input, submit, page, event>>

NextResolve == Call_fuzzy_match_airline

SpecResolve == InitResolve /\ [][NextResolve]_vars

-----------------------------------------------------------------------------
(* The aggregation operations called on their own, on any dataset.  The      *)
(* operations are pure: each may be called at any time, any number of times. *)

InitAggregate ==
    /\ df \in Datasets
    /\ session_state = NoKeys
    /\ airport_input = <<>>
    /\ airline_input = <<>>
    /\ submit = FALSE
    /\ page = BlankPage
    /\ event = "start"
    /\ \E q \in Queries :
           call = [NoCall EXCEPT !.fn = "call", !.airport_code = q[1],
                                 !.airline_name = q[2]]

Call_get_flight_stats ==
    /\ call' = [call EXCEPT
                   !.fn = "get_flight_stats",
                   !.view_type = "",
                   !.ret = get_flight_stats(df, call.airport_code, call.airline_name)]
    /\ UNCHANGED <<df, session_state, airport_input, airline_input, submit, page, event>>

Call_plot_monthly_delays ==
    \E view_type \in ViewTypes :
        /\ call' = [call EXCEPT
                       !.fn = "plot_monthly_delays",
                       !.view_type = view_type,
                       !.ret = plot_monthly_delays(df, call.airport_code,
                                                   call.airline_name, view_type)]
        /\ UNCHANGED <<df, session_state, airport_input, airline_input, submit, page,
                       event>>

Call_plot_delay_cause_pie ==
    /\ call' = [call EXCEPT
                   !.fn = "plot_delay_cause_pie",
                   !.view_type = "",
                   !.ret = plot_delay_cause_pie(df, call.airport_code,
                                                call.airline_name)]
    /\ UNCHANGED <<df, session_state, airport_input, airline_input, submit, page, event>>

NextAggregate ==
    Call_get_flight_stats \/ Call_plot_monthly_delays \/ Call_plot_delay_cause_pie

SpecAggregate == InitAggregate /\ [][NextAggregate]_vars

-----------------------------------------------------------------------------
(* Properties of fuzzy_match_airline (checked under SpecResolve) *)

Returned == call.fn = "fuzzy_match_airline"
IsOverride(u) ==
    Lower(u) \in {k_southwest, k_delta, k_american, k_united, k_alaska, k_spirit}
Below04(score) == 5 * score[1] < 2 * score[2]
Candidates == DOMAIN call.airline_list
ScoreOf(i) == ratio(call.airline_list[i], call.user_input)
\* the candidates that reach 0.4 with the greatest score
Best == {i \in Candidates :
            /\ ~Below04(ScoreOf(i))
            /\ \A j \in Candidates : ScoreGE(ScoreOf(i), ScoreOf(j))}

\* C1: an input whose lower-cased form is a key of the override table returns
\* exactly the name the table maps it to, whatever the candidates are.
Thm_C1 ==
    Returned =>
        LET k == Lower(call.user_input)
        IN  /\ k = k_southwest => call.ret = Some(n_Southwest)
            /\ k = k_delta => call.ret = Some(n_Delta)
            /\ k = k_american => call.ret = Some(n_American)
            /\ k = k_united => call.ret = Some(n_United)
            /\ k = k_alaska => call.ret = Some(n_Alaska)
            /\ k = k_spirit => call.ret = Some(n_Spirit)

\* "DELTA" against the only candidate "delta": the override wins over a
\* candidate the fuzzy search would accept, and its name is no candidate
Witness_C1 ==
    /\ Returned
    /\ call.user_input = Upper(k_delta)
    /\ call.airline_list = <<k_delta>>
    /\ call.ret = Some(n_Delta)

\* C7: for an input that is no override key, the result is None exactly when
\* every candidate scores below 0.4 against the input as typed; otherwise it
\* is a candidate with the greatest score.
Thm_C7 ==
    (Returned /\ ~IsOverride(call.user_input)) =>
        /\ call.ret = None <=> \A i \in Candidates : Below04(ScoreOf(i))
        /\ call.ret # None => \E i \in Best : call.ret = Some(call.airline_list[i])

\* "xyz" against "axx" (0.33) and "ax" (exactly 0.4): "ax" is returned
Witness_C7 ==
    /\ Returned
    /\ call.user_input = t_xyz
    /\ call.airline_list = <<t_axx, t_ax>>
    /\ call.ret = Some(t_ax)

\* C8, as claimed: among the candidates that tie for the greatest score, the
\* one that comes first in the candidate list is returned.
Orig_C8 ==
    (Returned /\ ~IsOverride(call.user_input) /\ Best # {}) =>
        call.ret = Some(call.airline_list[SetMin(Best)])

\* C8, amended: among the candidates that tie for the greatest score, the one
\* that is greatest in string order is returned, wherever it is in the list.
Thm_C8 ==
    (Returned /\ ~IsOverride(call.user_input) /\ Best # {}) =>
        \E i \in Best :
            /\ call.ret = Some(call.airline_list[i])
            /\ \A j \in Best \ {i} :
                   StrLess(call.airline_list[j], call.airline_list[i])

\* "ab" against "ax" and "ay", both 0.5: the second, "ay", is returned
Witness_C8 ==
    /\ Returned
    /\ call.user_input = t_ab
    /\ call.airline_list = <<t_ax, t_ay>>
    /\ Cardinality(Best) = 2
    /\ call.ret = Some(t_ay)

-----------------------------------------------------------------------------
(* Properties of the aggregation operations (checked under SpecAggregate) *)

\* the rows whose airport and carrier both equal the requested values
Matching ==
    {i \in DOMAIN df : /\ df[i].airport = call.airport_code
                       /\ df[i].carrier_name = call.airline_name}

RECURSIVE SumOver(_, _)
SumOver(I, col) ==
    IF I = {} THEN 0
    ELSE LET i == CHOOSE i \in I : TRUE
         IN  df[i][col] + SumOver(I \ {i}, col)

Finite(f) == f.kind = "num"
\* a float equals the quotient num/den of two whole numbers, den > 0
EqualsQuotient(f, num, den) == Finite(f) /\ f.n * den = num * f.d

\* C2: with no matching row, get_flight_stats returns None (never a summary),
\* and both plots show their no-data message; with a matching row none does.
Thm_C2 ==
    /\ call.fn = "get_flight_stats" => (call.ret = None <=> Matching = {})
    /\ call.fn = "get_flight_stats" => (call.ret.some <=> Matching # {})
    /\ call.fn \in {"plot_monthly_delays", "plot_delay_cause_pie"} =>
           /\ call.ret.shown = "info" <=> Matching = {}
           /\ call.ret.shown = "chart" <=> Matching # {}

\* rows of the requested airport and rows of the requested carrier, but no
\* row of both: no statistics
Witness_C2 ==
    /\ call.fn = "get_flight_stats"
    /\ call.ret = None
    /\ \E i \in DOMAIN df : df[i].airport = call.airport_code
    /\ \E i \in DOMAIN df : df[i].carrier_name = call.airline_name

\* C3: matching rows whose arrivals sum to 0 yield a summary (not None) whose
\* delay_percent is not a number: NaN or inf, never 0 or any other percentage.
Thm_C3 ==
    (call.fn = "get_flight_stats" /\ Matching # {}
        /\ SumOver(Matching, "arr_flights") = 0) =>
        /\ call.ret.some
        /\ call.ret.val.total_arrivals = 0
        /\ ~Finite(call.ret.val.delay_percent)
        /\ call.ret.val.delay_percent \in {NaN, Inf}

Witness_C3 ==
    /\ call.fn = "get_flight_stats"
    /\ Matching # {}
    /\ SumOver(Matching, "arr_flights") = 0
    /\ call.ret.some
    /\ call.ret.val.delay_percent = NaN

\* C4: with matching rows and positive arrivals, the totals are the sums over
\* exactly the matching rows and delay_percent is 100 * delayed / arrivals to
\* the nearest hundredth.
Thm_C4 ==
    (call.fn = "get_flight_stats" /\ Matching # {}
        /\ SumOver(Matching, "arr_flights") > 0) =>
        LET arrivals == SumOver(Matching, "arr_flights")
            delayed == SumOver(Matching, "arr_del15")
            percent == call.ret.val.delay_percent
            error == percent.n * arrivals - 10000 * delayed
        IN  /\ call.ret.some
            /\ call.ret.val.total_arrivals = arrivals
            /\ call.ret.val.total_delays = delayed
            /\ Finite(percent)
            /\ percent.d = 100
            /\ 2 * error <= arrivals
            /\ -2 * error <= arrivals

\* arrivals {100, 50} and delayed {10, 5} give 150, 15 and 10.00
Witness_C4 ==
    /\ call.fn = "get_flight_stats"
    /\ Cardinality(Matching) = 2
    /\ {df[i].arr_flights : i \in Matching} = {100, 50}
    /\ call.ret = Some([total_arrivals |-> 150, total_delays |-> 15,
                        delay_percent |-> Num(1000, 100)])

\* the percentage of a group of rows: 100 * delayed / arrivals, not a number
\* when the group has no arrivals
GroupPercentOK(entry, I) ==
    /\ entry.arr_flights = SumOver(I, "arr_flights")
    /\ entry.arr_del15 = SumOver(I, "arr_del15")
    /\ IF SumOver(I, "arr_flights") > 0
       THEN EqualsQuotient(entry.delay_percent, 100 * SumOver(I, "arr_del15"),
                           SumOver(I, "arr_flights"))
       ELSE ~Finite(entry.delay_percent)

\* C5: with matching rows, the average view has one entry per month present,
\* in ascending month order, each summed over all years of that month; the
\* timeline view has one entry per (year, month) present, in chronological
\* order; each entry's percentage is 100 * group delayed / group arrivals.
Thm_C5 ==
    (call.fn = "plot_monthly_delays" /\ Matching # {}) =>
        LET data == call.ret.data
        IN  /\ call.ret.shown = "chart"
            /\ call.view_type = AverageByMonth =>
                 /\ Len(data) = Cardinality({df[i].month : i \in Matching})
                 /\ \A x, y \in DOMAIN data : x < y => data[x].month < data[y].month
                 /\ \A x \in DOMAIN data :
                        GroupPercentOK(data[x],
                            {i \in Matching : df[i].month = data[x].month})
            /\ call.view_type = Timeline =>
                 /\ Len(data) =
                        Cardinality({<<df[i].year, df[i].month>> : i \in Matching})
                 /\ \A x, y \in DOMAIN data : x < y =>
                        12 * data[x].year + data[x].month
                            < 12 * data[y].year + data[y].month
                 /\ \A x \in DOMAIN data :
                        GroupPercentOK(data[x],
                            {i \in Matching : /\ df[i].year = data[x].year
                                              /\ df[i].month = data[x].month})

\* January 2021 before January 2020 in the dataset: one entry in the average
\* view would hold both; the timeline holds two, 2020 first
Witness_C5 ==
    /\ call.fn = "plot_monthly_delays"
    /\ call.view_type = Timeline
    /\ Matching = {1, 2}
    /\ df[1].year = 2021 /\ df[2].year = 2020
    /\ df[1].month = df[2].month
    /\ Len(call.ret.data) = 2
    /\ call.ret.data[1].year = 2020

\* C6: with matching rows, a cause is in the breakdown exactly when its minutes
\* summed over the matching rows are positive, with that sum as its value.
Thm_C6 ==
    (call.fn = "plot_delay_cause_pie" /\ Matching # {}) =>
        LET data == call.ret.data
            InBreakdown(label, col) ==
                /\ (\E x \in DOMAIN data : data[x].Cause = label)
                       <=> SumOver(Matching, col) > 0
                /\ \A x \in DOMAIN data :
                       data[x].Cause = label =>
                           data[x].Minutes = SumOver(Matching, col)
                /\ \A x, y \in DOMAIN data :
                       (data[x].Cause = label /\ data[y].Cause = label) => x = y
        IN  /\ call.ret.shown = "chart"
            /\ InBreakdown("Carrier Delay", "carrier_delay")
            /\ InBreakdown("Weather Delay", "weather_delay")
            /\ InBreakdown("NAS Delay", "nas_delay")
            /\ InBreakdown("Security Delay", "security_delay")
            /\ InBreakdown("Late Aircraft", "late_aircraft_delay")
            /\ \A x \in DOMAIN data :
                   data[x].Cause \in {"Carrier Delay", "Weather Delay", "NAS Delay",
                                      "Security Delay", "Late Aircraft"}

\* carrier minutes 120 and no weather minutes: only "Carrier Delay": 120
Witness_C6 ==
    /\ call.fn = "plot_delay_cause_pie"
    /\ \E i \in Matching : df[i].carrier_delay = 120 /\ df[i].weather_delay = 0
    /\ call.ret.data = <<[Cause |-> "Carrier Delay", Minutes |-> 120]>>

-----------------------------------------------------------------------------
(* Properties of the session (checked under Spec) *)

StoredQuery(state) ==
    IF has_query(state)
    THEN Some(<<state["airport_input"], state["airline_input"]>>)
    ELSE None

ViewTypeOK ==
    /\ Has(session_state, "view_type") => session_state["view_type"] \in ViewTypes
    /\ page.status = "results" =>
           /\ Has(session_state, "view_type")
           /\ page.view_type = session_state["view_type"]

ViewStep ==
    \* the first render with results uses the average view
    /\ (page'.status = "results" /\ ~Has(session_state, "view_type")) =>
           page'.view_type = AverageByMonth
    \* a selection is drawn, for the same query
    /\ event' = "select" =>
           /\ page.status = "results" /\ page'.status = "results"
           /\ page'.view_type \in ViewTypes \ {page.view_type}
           /\ StoredQuery(session_state') = StoredQuery(session_state)
    \* any other render of the same query keeps the view
    /\ (/\ page.status = "results" /\ page'.status = "results"
        /\ StoredQuery(session_state') = StoredQuery(session_state)
        /\ event' # "select") =>
           page'.view_type = page.view_type

\* C9: the stored view type is one of the two views; the first render with
\* results uses the average view; a selected view is used by every later
\* render of the same query until the other view is selected or New Search
\* is pressed.
Thm_C9 == []ViewTypeOK /\ [][ViewStep]_vars

\* the timeline, selected earlier, drawn again after the user typed in a box
Witness_C9 ==
    /\ event = "type"
    /\ page.status = "results"
    /\ page.view_type = Timeline
    /\ session_state["view_type"] = Timeline

QueryOK ==
    /\ Has(session_state, "airport_input") <=> Has(session_state, "airline_input")
    /\ has_query(session_state) =>
           /\ session_state["airport_input"] # <<>>
           /\ session_state["airline_input"] # <<>>
           /\ session_state["airport_input"] = Upper(session_state["airport_input"])
    \* the airline is resolved and the data aggregated only for a stored query
    /\ page.status \in {"error", "warning", "results"} => has_query(session_state)
    /\ ~has_query(session_state) => (~page.matched_airline.some /\ ~page.stats.some)

QueryStep ==
    /\ StoredQuery(session_state') # StoredQuery(session_state) =>
           \/ /\ event' = "search"
              /\ airport_input' # <<>> /\ airline_input' # <<>>
              /\ StoredQuery(session_state') = Some(<<airport_input', airline_input'>>)
           \/ /\ event' = "new_search"
              /\ session_state' = NoKeys
    /\ (event' = "search" /\ airport_input' # <<>> /\ airline_input' # <<>>) =>
           StoredQuery(session_state') = Some(<<airport_input', airline_input'>>)
    /\ event' = "new_search" => session_state' = NoKeys

\* C10: the session holds no query, or a query with a non-empty upper-case
\* airport and a non-empty airline; the query changes only by Search with both
\* boxes filled (to exactly that pair) or by New Search (the session is
\* emptied); nothing is resolved or aggregated without a stored query.
Thm_C10 == []QueryOK /\ [][QueryStep]_vars

\* Search stored (SFO, spirit), which has no data, over an earlier query that
\* had results (its view type is still in the session)
Witness_C10 ==
    /\ event = "search"
    /\ StoredQuery(session_state) = Some(<<SFO, k_spirit>>)
    /\ Has(session_state, "view_type")
    /\ page.status = "warning"

=============================================================================
